---- MODULE Spec2Model ----
(***************************************************************************)
(* Shopping-cart subsystem of backend-belloamuleto.                        *)
(*                                                                         *)
(* CarritoService (src/src/services/CarritoService.js) orchestrates        *)
(* CarritoRepository (src/src/repositories/CarritoRepository.js) and the   *)
(* product catalog.  Every `await` on the database client is one atomic    *)
(* step; the code between two awaits runs without interruption (one        *)
(* JavaScript event loop).  A service call is therefore a little program   *)
(* whose position is `pc`; the operators below give, for every position,   *)
(* the effect of the database call made there and of the code up to the    *)
(* next await.                                                             *)
(*                                                                         *)
(* Spec     : service calls never overlap (each call runs to completion    *)
(*            as one action), the catalog changes between calls.           *)
(* SpecConc : two callers, calls interleave at their awaits.               *)
(* SpecFallo: as Spec, and one database call of a call may fail.           *)
(* SpecHttp : as Spec, and the requests of POST /api/carrito/items.        *)
(* SpecUsers: two callers acting for two users, interleaved.               *)
(***************************************************************************)
EXTENDS Integers, Sequences, FiniteSets, TLC

\* ---- bounds of the model ----
MaxCarts == 2
MaxDetalles == 2
MaxOps == 3
MaxCalls == 3

Users == {1, 2}
Products == {1, 2}
\* product ids a caller may send; 3 is not in the catalog
ProductInputs == {1, 2, 3}
Procs == {1, 2}
\* stock and price values of the catalog, quantities a caller may send
Stocks == {0, 1, 2}
Precios == {1, 2}
Cantidades == {0, 1, 2, 3}
\* other numbers a caller may send as a quantity: 3/2 and -1
OtrasCantidades == {[num |-> 3, den |-> 2], [num |-> -1, den |-> 1]}
ConcCantidades == {1, 2}
ConcProducts == {1}
ConcUsers == {1}
Estados == {1, 2, 3}
EstadoInputs == {1, 2, 3, 4}

VARIABLES
  carritos,      \* table carritos: sequence of rows, the id is the index
  detalles,      \* table detalles_carritos: set of rows
  detalleSeq,    \* next id of detalles_carritos (ids are never reused)
  productos,     \* table productos: id -> [precio, stock]
  procs,         \* SpecConc: the call each caller is executing
  calls,         \* number of operations issued so far
  ret            \* Spec: what the last call returned or threw

vars == <<carritos, detalles, detalleSeq, productos, procs, calls, ret>>

\* the database as the repositories see it
DB == [carritos |-> carritos, detalles |-> detalles,
       detalleSeq |-> detalleSeq, productos |-> productos]

NoDetalle == [id |-> 0, cantidad |-> 0]
NullProducto == [precio |-> -1, stock |-> -1]
NoView == [id |-> 0, usuario_id |-> 0, estado |-> 0, items |-> <<>>,
           total |-> 0, cantidad_items |-> 0, cantidad_productos |-> 0]

\* a caller that is executing nothing
IdleProc ==
  [pc |-> "idle", op |-> "none", ctx |-> "body", u |-> 0, p |-> 0, n |-> 0,
   stock |-> 0, carrito |-> 0, created |-> FALSE,
   existing |-> NoDetalle, detalle |-> 0, result |-> "none", msg |-> "",
   view |-> NoView,
   \* bookkeeping of SpecConc: the number of this call, the calls that were
   \* in flight together with it, and the callers that were between the
   \* select and the insert of getOrCreateCarrito when this call inserted
   id |-> 0, overlap |-> {}, rivals |-> {}]

\* the cantidad of the body of a request; den = 0 when the response did not
\* answer a request of POST /api/carrito/items
NoBody == [presente |-> FALSE, num |-> 0, den |-> 0]

\* nothing returned yet
NoResponse ==
  [op |-> "none", result |-> "none", msg |-> "", p |-> 0, n |-> 0,
   view |-> NoView, body |-> NoBody]

\* ---- the tables and the queries of the database client ----

\* the active carts of every user
ActiveCarts_sinUsuario(db, u) ==
  {c \in 1..Len(db.carritos) : db.carritos[c].estado = 1}

\* rows of carritos with usuario_id = u and estado = 1
ActiveCarts(db, u) ==
  {c \in 1..Len(db.carritos) :
     db.carritos[c].usuario_id = u /\ db.carritos[c].estado = 1}

\* a select filtered by the cart id instead of usuario_id
SelectActivoSingle_porId(db, u) ==
  IF u \in 1..Len(db.carritos) /\ db.carritos[u].estado = 1 THEN u ELSE 0

\* .eq('usuario_id', u).eq('estado', 1).single(): the row when exactly one
\* row matches, otherwise error PGRST116 and no data (0)
SelectActivoSingle(db, u) ==
  IF Cardinality(ActiveCarts(db, u)) = 1
    THEN CHOOSE c \in ActiveCarts(db, u) : TRUE
    ELSE 0

\* rows of detalles_carritos of one cart
DetallesDe(db, c) == {d \in db.detalles : d.carrito_id = c}

\* a select of the line filtered by carrito_id only
SelectDetalle_porCarrito(db, c, p) ==
  LET rows == {d \in db.detalles : d.carrito_id = c}
  IN IF Cardinality(rows) = 1
       THEN LET d == CHOOSE d \in rows : TRUE
            IN [id |-> d.id, cantidad |-> d.cantidad]
       ELSE NoDetalle

\* .eq('carrito_id', c).eq('producto_id', p).maybeSingle()
SelectDetalle(db, c, p) ==
  LET rows == {d \in db.detalles : d.carrito_id = c /\ d.producto_id = p}
  IN IF Cardinality(rows) = 1
       THEN LET d == CHOOSE d \in rows : TRUE
            IN [id |-> d.id, cantidad |-> d.cantidad]
       ELSE NoDetalle

RECURSIVE SortById(_)
\* the embedded rows of a cart as an array (ordered by id)
SortById(rows) ==
  IF rows = {} THEN <<>>
  ELSE LET d == CHOOSE x \in rows : \A y \in rows : x.id <= y.id
       IN <<d>> \o SortById(rows \ {d})

\* control transfer helpers
Goto(pr, label) == [pr EXCEPT !.pc = label]
Fail(pr, kind, msg) ==
  [pr EXCEPT !.pc = "done", !.result = kind, !.msg = msg]
Out(pr, db) == [proc |-> pr, db |-> db]

\* ---- CarritoRepository.getOrCreateCarrito ----

\* where the caller of getOrCreateCarrito continues
AfterGetOrCreate(pr) ==
  IF pr.ctx = "view" THEN "view_detalles"
  ELSE CASE pr.op = "add" -> "add_verificar"
         [] pr.op = "clear" -> "clear_delete"
         [] pr.op = "estado" -> "estado_update"
         [] OTHER -> "view_detalles"

\* getOrCreateCarrito without the `if (data) return data` branch
getOrCreateCarrito_select_always(pr, db) == Out(Goto(pr, "goc_create"), db)

\* select the active cart; return it when there is one
getOrCreateCarrito_select(pr, db) ==
  LET data == SelectActivoSingle(db, pr.u)
  IN IF data # 0
       THEN Out([pr EXCEPT !.pc = AfterGetOrCreate(pr), !.carrito = data,
                           !.created = FALSE], db)
       ELSE Out([pr EXCEPT !.pc = "goc_create", !.created = FALSE], db)

\* a create that leaves estado to the default of the column
getOrCreateCarrito_create_sinEstado(pr, db) ==
  IF Len(db.carritos) >= MaxCarts THEN Out(Goto(pr, "blocked"), db)
  ELSE LET id == Len(db.carritos) + 1
       IN Out([pr EXCEPT !.pc = AfterGetOrCreate(pr), !.carrito = id,
                         !.created = TRUE],
              [db EXCEPT !.carritos =
                 Append(@, [usuario_id |-> pr.u, estado |-> 3])])

\* this.create({usuario_id, estado: 1})
getOrCreateCarrito_create(pr, db) ==
  IF Len(db.carritos) >= MaxCarts THEN Out(Goto(pr, "blocked"), db)
  ELSE LET id == Len(db.carritos) + 1
       IN Out([pr EXCEPT !.pc = AfterGetOrCreate(pr), !.carrito = id,
                         !.created = TRUE],
              [db EXCEPT !.carritos =
                 Append(@, [usuario_id |-> pr.u, estado |-> 1])])

\* ---- CarritoRepository.getCarritoConDetalles ----

\* the active cart of u with its lines joined to productos, or 0 (null)
\* the oldest cart of the user, whatever its estado
getCarritoConDetalles_sinEstado(db, u) ==
  LET rows == {c \in 1..Len(db.carritos) : db.carritos[c].usuario_id = u}
  IN IF rows = {} THEN 0 ELSE CHOOSE c \in rows : \A k \in rows : c <= k

\* the active cart of the user with its lines embedded, or null
getCarritoConDetalles(db, u) == SelectActivoSingle(db, u)

\* ---- CarritoService.obtenerCarritoActivo ----

\* an item whose subtotal is the unit price
ItemDe_sinCantidad(d, db) ==
  LET prod == db.productos[d.producto_id]
  IN [id |-> d.id, producto_id |-> d.producto_id, precio |-> prod.precio,
      cantidad |-> d.cantidad, stock_disponible |-> prod.stock,
      subtotal |-> prod.precio,
      tiene_stock |-> (prod.stock >= d.cantidad)]

\* one element of `items`
ItemDe(d, db) ==
  LET prod == db.productos[d.producto_id]
  IN [id |-> d.id, producto_id |-> d.producto_id, precio |-> prod.precio,
      cantidad |-> d.cantidad, stock_disponible |-> prod.stock,
      subtotal |-> d.cantidad * prod.precio,
      tiene_stock |-> (prod.stock >= d.cantidad)]

RECURSIVE ReduceSubtotal(_, _)
\* items.reduce((sum, item) => sum + item.subtotal, 0)
ReduceSubtotal(items, sum) ==
  IF items = <<>> THEN sum
  ELSE ReduceSubtotal(Tail(items), sum + Head(items).subtotal)

\* a unit count that counts the items
ReduceCantidad_cuenta(items, sum) == sum + Len(items)

RECURSIVE ReduceCantidad(_, _)
\* items.reduce((sum, item) => sum + item.cantidad, 0)
ReduceCantidad(items, sum) ==
  IF items = <<>> THEN sum
  ELSE ReduceCantidad(Tail(items), sum + Head(items).cantidad)

\* the view built from the cart read by getCarritoConDetalles
VistaDe(c, db) ==
  LET rows == SortById(DetallesDe(db, c))
      items == [k \in 1..Len(rows) |-> ItemDe(rows[k], db)]
  IN [id |-> c, usuario_id |-> db.carritos[c].usuario_id,
      estado |-> db.carritos[c].estado, items |-> items,
      total |-> ReduceSubtotal(items, 0),
      cantidad_items |-> Len(items),
      cantidad_productos |-> ReduceCantidad(items, 0)]

\* the second half of obtenerCarritoActivo: read the details, build the view
obtenerCarritoActivo_detalles(pr, db) ==
  LET con == getCarritoConDetalles(db, pr.u)
      view == IF con = 0
                THEN [NoView EXCEPT !.id = pr.carrito, !.usuario_id = pr.u,
                                    !.estado = 1,
                                    !.cantidad_productos = -1]
                ELSE VistaDe(con, db)
  IN Out([pr EXCEPT !.pc = "done", !.result = "ok", !.view = view], db)

\* ---- BaseRepository.findById on productos ----

\* the product row, or NullProducto when no row has that id
findById(db, p) ==
  IF p \in DOMAIN db.productos THEN db.productos[p] ELSE NullProducto

\* the line of product p in the cart read by getCarritoConDetalles
\* (detalles_carritos.find(d => d.productos.id === productoId)), or NoDetalle
FindDetalle(db, con, p) ==
  IF con = 0 THEN NoDetalle ELSE SelectDetalle(db, con, p)

\* obtenerCarritoActivo(usuarioId) as the last statement of an operation
ThenView(pr) == [pr EXCEPT !.pc = "goc_select", !.ctx = "view"]

\* ---- CarritoService.agregarProducto ----

\* productRepository.findById, stock normalisation, then getOrCreateCarrito
agregarProducto_findById(pr, db) ==
  LET producto == findById(db, pr.p)
  IN IF producto = NullProducto
       THEN Out(Fail(pr, "NotFoundError", "producto"), db)
     ELSE Out([pr EXCEPT !.pc = "goc_select", !.ctx = "body",
                         !.stock = producto.stock], db)

\* a stock check that forgets the quantity already in the cart
agregarProducto_verificar_soloSolicitado(pr, db) ==
  IF pr.n > pr.stock
    THEN Out(Fail(pr, "ValidationError", "stock"), db)
    ELSE Out(Goto(pr, "add_existing"), db)

\* getCarritoConDetalles, cantidadActualEnCarrito and the stock check
agregarProducto_verificar(pr, db) ==
  LET carritoActual == getCarritoConDetalles(db, pr.u)
      detalleExistente == FindDetalle(db, carritoActual, pr.p)
      cantidadActualEnCarrito == detalleExistente.cantidad
      nuevaCantidadTotal == cantidadActualEnCarrito + pr.n
  IN IF nuevaCantidadTotal > pr.stock
       THEN Out(Fail(pr, "ValidationError", "stock"), db)
       ELSE Out(Goto(pr, "add_existing"), db)

\* ---- CarritoRepository.agregarProducto ----

\* a select that also takes the requested units out of the stock
Repo_agregarProducto_select_reserva(pr, db) ==
  Out([pr EXCEPT !.pc = "add_write",
                 !.existing = SelectDetalle(db, pr.carrito, pr.p)],
      [db EXCEPT !.productos[pr.p].stock = @ - pr.n])

\* select the existing line of (carritoId, productoId)
Repo_agregarProducto_select(pr, db) ==
  Out([pr EXCEPT !.pc = "add_write",
                 !.existing = SelectDetalle(db, pr.carrito, pr.p)], db)

\* an upsert that replaces the quantity instead of incrementing it
CantidadIncrementada_replace(existing, cantidad) == cantidad

\* the quantity written over an existing line
CantidadIncrementada(existing, cantidad) == existing.cantidad + cantidad

\* the write on a table without UNIQUE (carrito_id, producto_id)
Repo_agregarProducto_write_sinUnique(pr, db) ==
  IF pr.existing # NoDetalle
    THEN IF \E d \in db.detalles : d.id = pr.existing.id
           THEN Out([ThenView(pr) EXCEPT !.detalle = pr.existing.id],
                    [db EXCEPT !.detalles =
                       {IF d.id = pr.existing.id
                          THEN [d EXCEPT !.cantidad =
                                  CantidadIncrementada(pr.existing, pr.n)]
                          ELSE d : d \in @}])
           ELSE Out(Fail(pr, "DatabaseError", "update"), db)
    ELSE IF db.detalleSeq > MaxDetalles THEN Out(Goto(pr, "blocked"), db)
         ELSE Out([ThenView(pr) EXCEPT !.detalle = db.detalleSeq],
                  [db EXCEPT !.detalles = @ \cup
                       {[id |-> db.detalleSeq, carrito_id |-> pr.carrito,
                         producto_id |-> pr.p, cantidad |-> pr.n]},
                     !.detalleSeq = @ + 1])

\* update of the existing line by id, or insert of a new line
Repo_agregarProducto_write(pr, db) ==
  IF pr.existing # NoDetalle
    THEN IF \E d \in db.detalles : d.id = pr.existing.id
           THEN Out([ThenView(pr) EXCEPT !.detalle = pr.existing.id],
                    [db EXCEPT !.detalles =
                       {IF d.id = pr.existing.id
                          THEN [d EXCEPT !.cantidad =
                                  CantidadIncrementada(pr.existing, pr.n)]
                          ELSE d : d \in @}])
           \* .single() on an update that matched no row
           ELSE Out(Fail(pr, "DatabaseError", "update"), db)
    ELSE IF \E d \in db.detalles :
              d.carrito_id = pr.carrito /\ d.producto_id = pr.p
           \* UNIQUE (carrito_id, producto_id)
           THEN Out(Fail(pr, "DatabaseError", "insert"), db)
           ELSE IF db.detalleSeq > MaxDetalles THEN Out(Goto(pr, "blocked"), db)
           ELSE Out([ThenView(pr) EXCEPT !.detalle = db.detalleSeq],
                    [db EXCEPT !.detalles = @ \cup
                         {[id |-> db.detalleSeq, carrito_id |-> pr.carrito,
                           producto_id |-> pr.p, cantidad |-> pr.n]},
                       !.detalleSeq = @ + 1])

\* CarritoRepository.agregarProducto(carritoId, productoId, cantidad) as a
\* whole: the select, then the update or the insert
Repo_agregarProducto(carritoId, productoId, cantidad, db) ==
  LET pr == [IdleProc EXCEPT !.pc = "add_existing", !.op = "add",
                             !.carrito = carritoId, !.p = productoId,
                             !.n = cantidad]
      sel == Repo_agregarProducto_select(pr, db)
  IN Repo_agregarProducto_write(sel.proc, sel.db)

\* ---- CarritoService.actualizarCantidadProducto ----

\* productRepository.findById and the stock check
actualizarCantidadProducto_findById(pr, db) ==
  LET producto == findById(db, pr.p)
  IN IF producto = NullProducto
       THEN Out(Fail(pr, "NotFoundError", "producto"), db)
     ELSE IF pr.n > producto.stock
       THEN Out([Fail(pr, "ValidationError", "stock") EXCEPT
                   !.stock = producto.stock], db)
       ELSE Out([pr EXCEPT !.pc = "set_buscar", !.stock = producto.stock], db)

\* a search of the line that inserts the line it does not find
actualizarCantidadProducto_buscar_upsert(pr, db) ==
  LET carritoConDetalles == getCarritoConDetalles(db, pr.u)
      detalleCarrito == FindDetalle(db, carritoConDetalles, pr.p)
  IN IF carritoConDetalles = 0
       THEN Out(Fail(pr, "NotFoundError", "carrito"), db)
     ELSE IF detalleCarrito = NoDetalle
       THEN IF db.detalleSeq > MaxDetalles THEN Out(Goto(pr, "blocked"), db)
            ELSE Out([ThenView(pr) EXCEPT !.detalle = db.detalleSeq],
                     [db EXCEPT !.detalles = @ \cup
                          {[id |-> db.detalleSeq,
                            carrito_id |-> carritoConDetalles,
                            producto_id |-> pr.p, cantidad |-> pr.n]},
                        !.detalleSeq = @ + 1])
     ELSE Out([pr EXCEPT !.pc = "set_update", !.carrito = carritoConDetalles,
                         !.detalle = detalleCarrito.id], db)

\* getCarritoConDetalles and the search of the line
actualizarCantidadProducto_buscar(pr, db) ==
  LET carritoConDetalles == getCarritoConDetalles(db, pr.u)
      detalleCarrito == FindDetalle(db, carritoConDetalles, pr.p)
  IN IF carritoConDetalles = 0
       THEN Out(Fail(pr, "NotFoundError", "carrito"), db)
     ELSE IF detalleCarrito = NoDetalle
       THEN Out(Fail(pr, "NotFoundError", "detalle"), db)
     ELSE Out([pr EXCEPT !.pc = "set_update", !.carrito = carritoConDetalles,
                         !.detalle = detalleCarrito.id], db)

\* an update that adds to the stored quantity
CantidadActualizada_suma(d, cantidad) ==
  [d EXCEPT !.cantidad = @ + cantidad]

\* the row written by CarritoRepository.actualizarCantidad
CantidadActualizada(d, cantidad) == [d EXCEPT !.cantidad = cantidad]

\* an update that writes the row back when it matches none
Repo_actualizarCantidad_upsert(pr, db) ==
  Out(ThenView(pr),
      [db EXCEPT !.detalles =
         {d \in @ : d.id # pr.detalle} \cup
         {[id |-> pr.detalle, carrito_id |-> pr.carrito,
           producto_id |-> pr.p, cantidad |-> pr.n]}])

\* CarritoRepository.actualizarCantidad(detalleId, cantidad)
Repo_actualizarCantidad(pr, db) ==
  IF \E d \in db.detalles : d.id = pr.detalle
    THEN Out(ThenView(pr),
             [db EXCEPT !.detalles =
                {IF d.id = pr.detalle THEN CantidadActualizada(d, pr.n)
                 ELSE d : d \in @}])
    ELSE Out(Fail(pr, "NotFoundError", "detalle"), db)

\* ---- CarritoService.eliminarProducto ----

\* getCarritoConDetalles and the search of the line
eliminarProducto_buscar(pr, db) ==
  LET carritoConDetalles == getCarritoConDetalles(db, pr.u)
      detalleCarrito == FindDetalle(db, carritoConDetalles, pr.p)
  IN IF carritoConDetalles = 0
       THEN Out(Fail(pr, "NotFoundError", "carrito"), db)
     ELSE IF detalleCarrito = NoDetalle
       THEN Out(Fail(pr, "NotFoundError", "detalle"), db)
     ELSE Out([pr EXCEPT !.pc = "rem_delete", !.carrito = carritoConDetalles,
                         !.detalle = detalleCarrito.id], db)

\* a delete filtered by the cart instead of the line
Repo_eliminarProducto_porCarrito(pr, db) ==
  Out(ThenView(pr),
      [db EXCEPT !.detalles = {d \in @ : d.carrito_id # pr.carrito}])

\* CarritoRepository.eliminarProducto(detalleId)
Repo_eliminarProducto(pr, db) ==
  Out(ThenView(pr),
      [db EXCEPT !.detalles = {d \in @ : d.id # pr.detalle}])

\* ---- CarritoService.vaciarCarrito ----

\* a delete filtered by the id of the line instead of carrito_id
Repo_vaciarCarrito_porId(pr, db) ==
  Out(ThenView(pr),
      [db EXCEPT !.detalles = {d \in @ : d.id # pr.carrito}])

\* CarritoRepository.vaciarCarrito(carritoId)
Repo_vaciarCarrito(pr, db) ==
  Out(ThenView(pr),
      [db EXCEPT !.detalles = {d \in @ : d.carrito_id # pr.carrito}])

\* ---- CarritoService.cambiarEstadoCarrito ----

\* an update filtered by usuario_id instead of the cart id
Repo_cambiarEstado_porUsuario(pr, db) ==
  IF pr.carrito \in 1..Len(db.carritos)
    THEN Out([pr EXCEPT !.pc = "done", !.result = "ok",
                        !.view = [NoView EXCEPT !.id = pr.carrito,
                                                !.usuario_id = pr.u,
                                                !.estado = pr.n]],
             [db EXCEPT !.carritos =
                [c \in 1..Len(@) |->
                   IF @[c].usuario_id = pr.u
                     THEN [@[c] EXCEPT !.estado = pr.n] ELSE @[c]]])
    ELSE Out(Fail(pr, "NotFoundError", "carrito"), db)

\* CarritoRepository.cambiarEstado(carritoId, nuevoEstado)
Repo_cambiarEstado(pr, db) ==
  IF pr.carrito \in 1..Len(db.carritos)
    THEN Out([pr EXCEPT !.pc = "done", !.result = "ok",
                        !.view = [NoView EXCEPT !.id = pr.carrito,
                                                !.usuario_id = pr.u,
                                                !.estado = pr.n]],
             [db EXCEPT !.carritos[pr.carrito].estado = pr.n])
    ELSE Out(Fail(pr, "NotFoundError", "carrito"), db)

\* ---- CarritoRepository.calcularTotal ----

RECURSIVE ReduceTotal(_, _, _)
\* data.reduce((sum, item) => sum + item.cantidad * item.productos.precio, 0)
ReduceTotal(data, db, sum) ==
  IF data = {} THEN sum
  ELSE LET item == CHOOSE x \in data : TRUE
       IN ReduceTotal(data \ {item}, db,
                      sum + item.cantidad * db.productos[item.producto_id].precio)

\* a total over the lines of every cart
calcularTotal_sinFiltro(db, carritoId) == ReduceTotal(db.detalles, db, 0)

\* the rows of detalles_carritos with carrito_id = carritoId, reduced
calcularTotal(db, carritoId) ==
  ReduceTotal({d \in db.detalles : d.carrito_id = carritoId}, db, 0)

\* ---- one step of a call ----
StepOf(pr, db) ==
  CASE pr.pc = "goc_select" -> getOrCreateCarrito_select(pr, db)
    [] pr.pc = "goc_create" -> getOrCreateCarrito_create(pr, db)
    [] pr.pc = "view_detalles" -> obtenerCarritoActivo_detalles(pr, db)
    [] pr.pc = "add_find" -> agregarProducto_findById(pr, db)
    [] pr.pc = "add_verificar" -> agregarProducto_verificar(pr, db)
    [] pr.pc = "add_existing" -> Repo_agregarProducto_select(pr, db)
    [] pr.pc = "add_write" -> Repo_agregarProducto_write(pr, db)
    [] pr.pc = "set_find" -> actualizarCantidadProducto_findById(pr, db)
    [] pr.pc = "set_buscar" -> actualizarCantidadProducto_buscar(pr, db)
    [] pr.pc = "set_update" -> Repo_actualizarCantidad(pr, db)
    [] pr.pc = "rem_buscar" -> eliminarProducto_buscar(pr, db)
    [] pr.pc = "rem_delete" -> Repo_eliminarProducto(pr, db)
    [] pr.pc = "clear_delete" -> Repo_vaciarCarrito(pr, db)
    [] pr.pc = "estado_update" -> Repo_cambiarEstado(pr, db)
    [] OTHER -> Out(pr, db)

RECURSIVE Run(_, _)
\* a call that nothing interrupts
Run(pr, db) ==
  IF pr.pc \in {"done", "blocked"} THEN Out(pr, db)
  ELSE LET r == StepOf(pr, db) IN Run(r.proc, r.db)

\* ---- entry points of CarritoService (the code before the first await) ----
Begin_obtenerCarritoActivo(u) ==
  [IdleProc EXCEPT !.pc = "goc_select", !.op = "view", !.ctx = "view", !.u = u]

\* Number.isInteger(x) for a number given as a fraction
NumberIsInteger(x) == x.num % x.den = 0

\* a validation that only rejects negative quantities
CantidadValida_noNegativa(n) == n >= 0

\* Number.isInteger(cantidad) && cantidad > 0, for an integer cantidad
CantidadValida(n) == n > 0

Begin_agregarProducto(u, p, n) ==
  LET pr == [IdleProc EXCEPT !.op = "add", !.u = u, !.p = p, !.n = n]
  IN IF ~CantidadValida(n) THEN Fail(pr, "ValidationError", "cantidad")
     ELSE Goto(pr, "add_find")

Begin_actualizarCantidadProducto(u, p, n) ==
  LET pr == [IdleProc EXCEPT !.op = "set", !.u = u, !.p = p, !.n = n]
  IN IF ~CantidadValida(n) THEN Fail(pr, "ValidationError", "cantidad")
     ELSE Goto(pr, "set_find")

\* agregarProducto called with an arbitrary number as cantidad
Begin_agregarProducto_numero(u, p, x) ==
  IF ~NumberIsInteger(x)
    THEN Fail([IdleProc EXCEPT !.op = "add", !.u = u, !.p = p],
              "ValidationError", "cantidad")
    ELSE Begin_agregarProducto(u, p, x.num \div x.den)

\* actualizarCantidadProducto called with an arbitrary number as nuevaCantidad
Begin_actualizarCantidadProducto_numero(u, p, x) ==
  IF ~NumberIsInteger(x)
    THEN Fail([IdleProc EXCEPT !.op = "set", !.u = u, !.p = p],
              "ValidationError", "cantidad")
    ELSE Begin_actualizarCantidadProducto(u, p, x.num \div x.den)

Begin_eliminarProducto(u, p) ==
  [IdleProc EXCEPT !.pc = "rem_buscar", !.op = "remove", !.u = u, !.p = p]

Begin_vaciarCarrito(u) ==
  [IdleProc EXCEPT !.pc = "goc_select", !.op = "clear", !.u = u]

Begin_cambiarEstadoCarrito(u, e) ==
  LET pr == [IdleProc EXCEPT !.op = "estado", !.u = u, !.n = e]
  IN IF e \notin Estados THEN Fail(pr, "ValidationError", "estado")
     ELSE Goto(pr, "goc_select")

\* ---- Spec: calls that do not overlap ----
Init ==
  /\ carritos = <<>>
  /\ detalles = {}
  /\ detalleSeq = 1
  /\ productos = [p \in Products |-> [precio |-> 1, stock |-> 2]]
  /\ procs = [i \in Procs |-> IdleProc]
  /\ calls = 0
  /\ ret = NoResponse

\* what the caller of a finished call observes: the view (for
\* cambiarEstadoCarrito the cart id and the new state) or the error thrown
Response(pr) ==
  [op |-> pr.op, result |-> pr.result, msg |-> pr.msg,
   p |-> IF pr.result = "ok" THEN pr.p ELSE 0,
   n |-> IF pr.result = "ok" THEN pr.n ELSE 0,
   view |-> pr.view, body |-> NoBody]

\* the whole call, from its entry to its return or throw
Call(begin) ==
  LET r == Run(begin, DB)
  IN /\ calls < MaxOps
     /\ r.proc.pc = "done"
     /\ carritos' = r.db.carritos
     /\ detalles' = r.db.detalles
     /\ detalleSeq' = r.db.detalleSeq
     /\ productos' = r.db.productos
     /\ ret' = Response(r.proc)
     /\ calls' = calls + 1
     /\ UNCHANGED procs

ViewCart(u) == Call(Begin_obtenerCarritoActivo(u))
AddItem(u, p, n) == Call(Begin_agregarProducto(u, p, n))
SetItemQuantity(u, p, n) == Call(Begin_actualizarCantidadProducto(u, p, n))
AddItemNumero(u, p, x) == Call(Begin_agregarProducto_numero(u, p, x))
SetItemQuantityNumero(u, p, x) ==
  Call(Begin_actualizarCantidadProducto_numero(u, p, x))
RemoveItem(u, p) == Call(Begin_eliminarProducto(u, p))
Clear(u) == Call(Begin_vaciarCarrito(u))
SetCartState(u, e) == Call(Begin_cambiarEstadoCarrito(u, e))

\* ProductService.updateProduct(id, {precio}) between two cart calls; the
\* result of the cart call before it has been delivered
UpdatePrecio(p, v) ==
  /\ calls < MaxOps
  /\ productos[p].precio # v
  /\ productos' = [productos EXCEPT ![p].precio = v]
  /\ ret' = NoResponse
  /\ calls' = calls + 1
  /\ UNCHANGED <<carritos, detalles, detalleSeq, procs>>

\* ProductService.updateProduct(id, {stock}) between two cart calls
UpdateStock(p, s) ==
  /\ calls < MaxOps
  /\ productos[p].stock # s
  /\ productos' = [productos EXCEPT ![p].stock = s]
  /\ ret' = NoResponse
  /\ calls' = calls + 1
  /\ UNCHANGED <<carritos, detalles, detalleSeq, procs>>

Next ==
  \/ \E u \in Users : ViewCart(u)
  \/ \E u \in Users, p \in ProductInputs, n \in Cantidades : AddItem(u, p, n)
  \/ \E u \in Users, p \in ProductInputs, n \in Cantidades :
       SetItemQuantity(u, p, n)
  \/ \E u \in Users, p \in Products, x \in OtrasCantidades :
       AddItemNumero(u, p, x)
  \/ \E u \in Users, p \in Products, x \in OtrasCantidades :
       SetItemQuantityNumero(u, p, x)
  \/ \E u \in Users, p \in ProductInputs : RemoveItem(u, p)
  \/ \E u \in Users : Clear(u)
  \/ \E u \in Users, e \in EstadoInputs : SetCartState(u, e)
  \/ \E p \in Products, v \in Precios : UpdatePrecio(p, v)
  \/ \E p \in Products, s \in Stocks : UpdateStock(p, s)

Spec == Init /\ [][Next]_vars

\* ---- SpecFallo: calls that do not overlap, one database call may fail ----

\* how a call of the database client fails: it resolves to {error} (with a
\* code other than PGRST116), or it throws (rejects)
Fallos == {"error", "throw"}

\* which database call of a service call fails (the longest service call,
\* agregarProducto, makes eight)
Posiciones == 1..8

\* the effect of a failed database call at position pr.pc
FalloEn(pr, db, modo) ==
  CASE \* const { data: existing } = await ...maybeSingle(): the error of the
       \* result is not read, existing is null and the insert follows
       pr.pc = "add_existing" /\ modo = "error" ->
         Out([pr EXCEPT !.pc = "add_write", !.existing = NoDetalle], db)
       \* catch (error) { throw error; } in actualizarCantidad,
       \* eliminarProducto, vaciarCarrito and cambiarEstado
    [] pr.pc \in {"set_update", "rem_delete", "clear_delete", "estado_update"}
         /\ modo = "throw" ->
         Out(Fail(pr, "Error", "throw"), db)
       \* if (error) throw new DatabaseError(...), or the catch that wraps
    [] OTHER -> Out(Fail(pr, "DatabaseError", "fallo"), db)

RECURSIVE RunFallo(_, _, _, _)
\* a call that nothing interrupts and whose k-th database call fails
RunFallo(pr, db, k, modo) ==
  IF pr.pc \in {"done", "blocked"}
    THEN [proc |-> pr, db |-> db, fallo |-> (k = 0)]
  ELSE IF k = 1
    THEN LET r == FalloEn(pr, db, modo) IN RunFallo(r.proc, r.db, 0, modo)
    ELSE LET r == StepOf(pr, db)
         IN RunFallo(r.proc, r.db, IF k = 0 THEN 0 ELSE k - 1, modo)

\* the whole call, with the failure of its k-th database call
CallFallo(begin, k, modo) ==
  LET r == RunFallo(begin, DB, k, modo)
  IN /\ calls < MaxOps
     /\ r.proc.pc = "done"
     /\ r.fallo
     /\ carritos' = r.db.carritos
     /\ detalles' = r.db.detalles
     /\ detalleSeq' = r.db.detalleSeq
     /\ productos' = r.db.productos
     /\ ret' = Response(r.proc)
     /\ calls' = calls + 1
     /\ UNCHANGED procs

NextFallo ==
  \/ Next
  \/ \E k \in Posiciones, m \in Fallos :
       \/ \E u \in Users : CallFallo(Begin_obtenerCarritoActivo(u), k, m)
       \/ \E u \in Users, p \in Products, n \in ConcCantidades :
            CallFallo(Begin_agregarProducto(u, p, n), k, m)
       \/ \E u \in Users, p \in Products, n \in ConcCantidades :
            CallFallo(Begin_actualizarCantidadProducto(u, p, n), k, m)
       \/ \E u \in Users, p \in Products :
            CallFallo(Begin_eliminarProducto(u, p), k, m)
       \/ \E u \in Users : CallFallo(Begin_vaciarCarrito(u), k, m)
       \/ \E u \in Users, e \in Estados :
            CallFallo(Begin_cambiarEstadoCarrito(u, e), k, m)

SpecFallo == Init /\ [][NextFallo]_vars

\* ---- SpecHttp: the requests of POST /api/carrito/items ----

\* the cantidad of a request body: absent, or a number num/den
SinCantidad == [presente |-> FALSE, num |-> 0, den |-> 1]
CuerposCantidad ==
  {SinCantidad} \cup
  {[presente |-> TRUE, num |-> x[1], den |-> x[2]] :
     x \in {<<0, 1>>, <<1, 1>>, <<2, 1>>, <<3, 2>>, <<-1, 1>>}}
\* usuario_id and producto_id of a request body; 0 stands for a missing one
CuerposId == {0, 1, 2}

\* `cantidad ? ... : ...`: undefined and 0 are falsy
Truthy(c) == c.presente /\ c.num # 0

\* parseInt of a number: the digits before the decimal point
ParseInt(c) ==
  IF c.num >= 0 THEN c.num \div c.den ELSE 0 - ((0 - c.num) \div c.den)

\* const cant = cantidad ? parseInt(cantidad) : 1
CantDe(c) == IF Truthy(c) THEN ParseInt(c) ELSE 1

\* the controller throws before it reaches the service
HttpRechaza(u, p, c) == u <= 0 \/ p <= 0 \/ CantDe(c) <= 0

\* CarritoController.agregarProducto: the checks of the body, then the
\* service call; a throw goes to next(error)
HttpAgregarProducto(u, p, c) ==
  /\ calls < MaxOps
  /\ calls' = calls + 1
  /\ UNCHANGED procs
  /\ IF HttpRechaza(u, p, c)
       THEN /\ ret' = [NoResponse EXCEPT
                         !.op = "http_add",
                         !.result = "ValidationError",
                         !.msg = IF u <= 0 THEN "usuario_id"
                                 ELSE IF p <= 0 THEN "producto_id"
                                 ELSE "cantidad",
                         !.body = c]
            /\ UNCHANGED <<carritos, detalles, detalleSeq, productos>>
       ELSE LET r == Run(Begin_agregarProducto(u, p, CantDe(c)), DB)
            IN /\ r.proc.pc = "done"
               /\ carritos' = r.db.carritos
               /\ detalles' = r.db.detalles
               /\ detalleSeq' = r.db.detalleSeq
               /\ productos' = r.db.productos
               /\ ret' = [Response(r.proc) EXCEPT !.body = c]

NextHttp ==
  \/ Next
  \/ \E u \in CuerposId, p \in CuerposId, c \in CuerposCantidad :
       HttpAgregarProducto(u, p, c)

SpecHttp == Init /\ [][NextHttp]_vars

\* ---- SpecConc: two callers whose calls interleave at their awaits ----

InFlight(pr) == pr.pc \notin {"idle", "done"}

\* caller i enters a service method; `overlap` records which callers have a
\* call in flight at the same time
Start(i, begin) ==
  /\ calls < MaxCalls
  /\ ~InFlight(procs[i])
  \* callers are interchangeable: a new call takes the first free one
  /\ \A k \in Procs : k < i => InFlight(procs[k])
  /\ procs' = [j \in Procs |->
       IF j = i
         THEN [begin EXCEPT
                 !.id = calls + 1,
                 !.overlap =
                   IF InFlight(begin)
                     THEN {procs[k].id : k \in {k \in Procs \ {i} :
                                                  InFlight(procs[k])}}
                     ELSE {}]
         ELSE IF InFlight(procs[j]) /\ InFlight(begin)
           THEN [procs[j] EXCEPT !.overlap = @ \cup {calls + 1}]
           ELSE procs[j]]
  /\ calls' = calls + 1
  /\ UNCHANGED <<carritos, detalles, detalleSeq, productos, ret>>

\* caller i resumes after the await it was suspended at
Step(i) ==
  /\ InFlight(procs[i])
  /\ LET r == StepOf(procs[i], DB)
     IN /\ r.proc.pc # "blocked"
        /\ carritos' = r.db.carritos
        /\ detalles' = r.db.detalles
        /\ detalleSeq' = r.db.detalleSeq
        /\ productos' = r.db.productos
        /\ procs' = [procs EXCEPT ![i] =
             [r.proc EXCEPT
                !.view = NoView,
                !.rivals =
                  IF procs[i].pc = "goc_create"
                    THEN {k \in Procs \ {i} :
                            /\ procs[k].pc = "goc_create"
                            /\ procs[k].u = procs[i].u}
                    ELSE IF procs[i].pc = "goc_select" THEN {} ELSE @]]
  /\ UNCHANGED <<calls, ret>>

NextConc ==
  \/ \E i \in Procs, u \in ConcUsers : Start(i, Begin_obtenerCarritoActivo(u))
  \/ \E i \in Procs, u \in ConcUsers, p \in ConcProducts, n \in ConcCantidades :
       Start(i, Begin_agregarProducto(u, p, n))
  \/ \E i \in Procs, u \in ConcUsers, p \in ConcProducts, n \in ConcCantidades :
       Start(i, Begin_actualizarCantidadProducto(u, p, n))
  \/ \E i \in Procs, u \in ConcUsers, p \in ConcProducts :
       Start(i, Begin_eliminarProducto(u, p))
  \/ \E i \in Procs, u \in ConcUsers : Start(i, Begin_vaciarCarrito(u))
  \/ \E i \in Procs, u \in ConcUsers, e \in Estados :
       Start(i, Begin_cambiarEstadoCarrito(u, e))
  \/ \E i \in Procs : Step(i)

SpecConc == Init /\ [][NextConc]_vars

\* ---- SpecUsers: the interleaved calls of two users ----

\* users are interchangeable: the first call is made for user 1; the calls
\* of one user do not overlap each other here (SpecConc has those), they
\* overlap the calls of the other user
StartDe(i, u, begin) ==
  /\ calls = 0 => u = 1
  /\ \A k \in Procs : InFlight(procs[k]) => procs[k].u # u
  /\ Start(i, begin)

NextUsers ==
  \/ \E i \in Procs, u \in Users :
       StartDe(i, u, Begin_obtenerCarritoActivo(u))
  \/ \E i \in Procs, u \in Users, p \in ConcProducts :
       StartDe(i, u, Begin_agregarProducto(u, p, 1))
  \/ \E i \in Procs, u \in Users, p \in ConcProducts :
       StartDe(i, u, Begin_actualizarCantidadProducto(u, p, 2))
  \/ \E i \in Procs, u \in Users, p \in ConcProducts :
       StartDe(i, u, Begin_eliminarProducto(u, p))
  \/ \E i \in Procs, u \in Users : StartDe(i, u, Begin_vaciarCarrito(u))
  \/ \E i \in Procs, u \in Users :
       StartDe(i, u, Begin_cambiarEstadoCarrito(u, 2))
  \/ \E i \in Procs : Step(i)

SpecUsers == Init /\ [][NextUsers]_vars

\* ---- claims ----

\* C1: after any sequence of cart service calls that do not overlap, every
\* user has at most one cart with estado = 1.
C1_AtMostOneActive ==
  \A u \in Users : Cardinality(ActiveCarts(DB, u)) <= 1

\* a call created a second cart for a user whose earlier cart was converted
\* or abandoned by cambiarEstadoCarrito
C1_Witness ==
  /\ ret.op \in {"view", "add", "clear"} /\ ret.result = "ok"
  /\ ActiveCarts(DB, ret.view.usuario_id) = {ret.view.id}
  /\ \E c \in 1..Len(carritos) :
       /\ carritos[c].usuario_id = ret.view.usuario_id
       /\ carritos[c].estado \in {2, 3}

\* ---- vocabulary of the claims ----

\* the lines of product p in the active cart(s) of user u
LineasDeProducto(db, u, p) ==
  {d \in db.detalles :
     d.carrito_id \in ActiveCarts(db, u) /\ d.producto_id = p}

\* the quantity of product p in the active cart of user u, 0 without a line
CantidadEnCarrito(db, u, p) ==
  IF LineasDeProducto(db, u, p) = {} THEN 0
  ELSE (CHOOSE d \in LineasDeProducto(db, u, p) : TRUE).cantidad

RECURSIVE SumaLineas(_, _)
\* the sum of cantidad * precio over a set of lines
SumaLineas(lineas, prods) ==
  IF lineas = {} THEN 0
  ELSE LET d == CHOOSE x \in lineas : TRUE
       IN d.cantidad * prods[d.producto_id].precio
            + SumaLineas(lineas \ {d}, prods)

\* the products listed in a view
ProductosEnVista(view) == {view.items[k].producto_id : k \in 1..Len(view.items)}

\* the last call returned a cart view
DevuelveVista(r) ==
  r.result = "ok" /\ r.op \in {"view", "add", "set", "remove", "clear"}

Min(a, b) == IF a <= b THEN a ELSE b

\* C2: when two getOrCreateCarrito calls for the same user are both between
\* their select (which found no active cart) and their insert, at most one
\* of them inserts a row and both return the same cart id.
C2_SingleCreation ==
  \A i \in Procs, j \in Procs :
    (i # j /\ j \in procs[i].rivals /\ procs[j].pc # "goc_create")
      => (~procs[j].created /\ procs[j].carrito = procs[i].carrito)

\* C3: addItem(u,p,a) on a cart without a line for p, followed by
\* addItem(u,p,b) with a+b <= stock(p), leaves exactly one line for p in the
\* active cart of u, with quantity a+b.
C3_MergeLaw ==
  [][\A b \in Cantidades :
       (/\ ret.op = "add" /\ ret.result = "ok"
        /\ CantidadEnCarrito(DB, ret.view.usuario_id, ret.p) = ret.n
        /\ b >= 1
        /\ ret.n + b <= productos[ret.p].stock
        /\ AddItem(ret.view.usuario_id, ret.p, b))
       => (/\ ret'.result = "ok"
           /\ Cardinality(LineasDeProducto(DB', ret.view.usuario_id, ret.p)) = 1
           /\ CantidadEnCarrito(DB', ret.view.usuario_id, ret.p) = ret.n + b)
    ]_vars

\* a second addItem was merged into the line of the first
C3_Witness ==
  /\ ret.op = "add" /\ ret.result = "ok" /\ ret.n = 1
  /\ CantidadEnCarrito(DB, ret.view.usuario_id, ret.p) = 2
  /\ Cardinality(LineasDeProducto(DB, ret.view.usuario_id, ret.p)) = 1

\* C4: among calls that do not overlap, after every addItem or
\* setItemQuantity that succeeds the quantity of the affected line is at most
\* the stock the call read, and every such call whose resulting quantity
\* would exceed that stock fails with ValidationError.
C4_StockBound ==
  [][/\ (ret'.op \in {"add", "set"} /\ ret'.result = "ok")
          => CantidadEnCarrito(DB', ret'.view.usuario_id, ret'.p)
               <= productos[ret'.p].stock
     /\ (ret'.op = "add" /\ ret'.result # "ValidationError")
          => \A u \in Users, p \in Products, n \in Cantidades :
               ~(/\ CantidadEnCarrito(DB, u, p) + n > productos[p].stock
                 /\ AddItem(u, p, n))
     /\ (ret'.op = "set" /\ ret'.result # "ValidationError")
          => \A u \in Users, p \in Products, n \in Cantidades :
               ~(/\ n > productos[p].stock
                 /\ SetItemQuantity(u, p, n))
    ]_vars

\* an addItem was rejected for lack of stock while a line already holds the
\* whole stock of the product
C4_Witness ==
  /\ ret.op = "add" /\ ret.result = "ValidationError" /\ ret.msg = "stock"
  /\ \E d \in detalles :
       d.cantidad = productos[d.producto_id].stock /\ d.cantidad > 0

\* C5: when two addItem calls on the same cart line overlap and both return
\* successfully, the line ends with the base quantity plus both increments.
C5_NoLostUpdate ==
  \A i \in Procs, j \in Procs :
    (/\ i # j
     /\ procs[i].pc = "done" /\ procs[j].pc = "done"
     /\ procs[i].op = "add" /\ procs[j].op = "add"
     /\ procs[i].result = "ok" /\ procs[j].result = "ok"
     /\ procs[i].detalle # 0 /\ procs[i].detalle = procs[j].detalle
     /\ procs[i].overlap = {procs[j].id}
     /\ procs[j].overlap = {procs[i].id})
    => \A d \in detalles :
         d.id = procs[i].detalle
           => d.cantidad =
                Min(procs[i].existing.cantidad, procs[j].existing.cantidad)
                  + procs[i].n + procs[j].n

\* C6: the stock of a product being constant, every quantity stored in a
\* cart line by interleaved addItem and setItemQuantity calls is at most the
\* stock of its product.
C6_WritesWithinStock ==
  \A d \in detalles : d.cantidad <= productos[d.producto_id].stock

\* C7: once the estado of a cart is 2 or 3 it never becomes 1 again, also
\* when cambiarEstadoCarrito calls overlap.
C7_TerminalStates ==
  [][\A c \in 1..Len(carritos) :
       carritos[c].estado \in {2, 3} => carritos'[c].estado # 1]_vars

\* C8: setItemQuantity(u,p,q) with an existing line for p in the active cart
\* of u and 1 <= q <= stock(p) succeeds, leaves that line with quantity
\* exactly q and changes no other line.
C8_AbsoluteSet ==
  [][ret'.op = "set" =>
       \A u \in Users, p \in Products, q \in Cantidades :
         (/\ LineasDeProducto(DB, u, p) # {}
          /\ q >= 1 /\ q <= productos[p].stock
          /\ SetItemQuantity(u, p, q))
         => (/\ ret'.result = "ok"
             /\ detalles' =
                  {IF d \in LineasDeProducto(DB, u, p)
                     THEN [d EXCEPT !.cantidad = q] ELSE d : d \in detalles})
    ]_vars

\* a setItemQuantity succeeded on a cart that holds a second line
C8_Witness ==
  /\ ret.op = "set" /\ ret.result = "ok"
  /\ CantidadEnCarrito(DB, ret.view.usuario_id, ret.p) = ret.n
  /\ Len(ret.view.items) = 2

\* C9: removeItem(u,p) raises NotFoundError when the active cart of u has no
\* line for p; otherwise it deletes exactly that line and returns a view
\* without p; until the next addItem(u,p) no line for p appears in the
\* active cart of u and no view returned to u lists p.
C9_Removal ==
  [][/\ ret'.op = "remove" =>
          \A u \in Users, p \in ProductInputs :
            RemoveItem(u, p) =>
              IF LineasDeProducto(DB, u, p) = {}
                THEN ret'.result = "NotFoundError" /\ detalles' = detalles
                ELSE /\ ret'.result = "ok"
                     /\ detalles' = detalles \ LineasDeProducto(DB, u, p)
                     /\ p \notin ProductosEnVista(ret'.view)
     /\ \A u \in Users, p \in Products :
          (/\ LineasDeProducto(DB, u, p) = {}
           /\ ~(/\ ret'.op = "add" /\ ret'.result = "ok" /\ ret'.p = p
                /\ ret'.view.usuario_id = u))
          => (/\ LineasDeProducto(DB', u, p) = {}
              /\ (DevuelveVista(ret') /\ ret'.view.usuario_id = u)
                   => p \notin ProductosEnVista(ret'.view))
    ]_vars

\* a removeItem deleted a line and left another one in the cart
C9_Witness ==
  /\ ret.op = "remove" /\ ret.result = "ok"
  /\ LineasDeProducto(DB, ret.view.usuario_id, ret.p) = {}
  /\ Len(ret.view.items) = 1

\* C10: the total of every returned view is the sum of cantidad * current
\* catalog price over the lines of the active cart of the user, and the cart
\* row stores no total.
C10_TotalCorrect ==
  /\ DevuelveVista(ret) =>
       ret.view.total =
         SumaLineas({d \in detalles :
                       d.carrito_id \in ActiveCarts(DB, ret.view.usuario_id)},
                    productos)
  /\ \A c \in 1..Len(carritos) : DOMAIN carritos[c] = {"usuario_id", "estado"}

\* viewCart returned the total of a line whose price was changed after the
\* line was added
C10_Witness ==
  /\ ret.op = "view" /\ ret.result = "ok"
  /\ Len(ret.view.items) = 1
  /\ ret.view.items[1].precio = 2 /\ ret.view.items[1].cantidad = 2
  /\ ret.view.total = 4

\* the rows of carritos that belong to user u, whatever their estado
CarritosDe(db, u) ==
  {c \in 1..Len(db.carritos) : db.carritos[c].usuario_id = u}

\* C11: for a user with no cart at all, viewCart(u) does not raise, inserts
\* exactly one cart row (of u, estado 1) and no line, and returns a view
\* with no items, total 0 and item count 0.
C11_EmptyCart ==
  [][ret'.op = "view" =>
       \A u \in Users :
         (CarritosDe(DB, u) = {} /\ ViewCart(u))
           => (/\ ret'.result = "ok"
               /\ carritos' = Append(carritos, [usuario_id |-> u, estado |-> 1])
               /\ detalles' = detalles
               /\ ret'.view.id = Len(carritos')
               /\ ret'.view.items = <<>>
               /\ ret'.view.total = 0
               /\ ret'.view.cantidad_items = 0
               /\ ret'.view.cantidad_productos = 0)
    ]_vars

\* the second call is the viewCart of a user without a cart, while another
\* user already holds a cart with a line
C11_Witness ==
  /\ calls = 2 /\ Len(carritos) = 2 /\ detalles # {}
  /\ ret.op = "view" /\ ret.result = "ok" /\ ret.view.id = 2
  /\ ret.view.items = <<>>
  /\ carritos[1].usuario_id # carritos[2].usuario_id

C15_PositiveQuantity ==
  \A d \in detalles : d.cantidad \in Nat /\ d.cantidad >= 1

\* a call was rejected for its quantity while the store holds a line
C15_Witness ==
  /\ ret.op \in {"add", "set"} /\ ret.result = "ValidationError"
  /\ ret.msg = "cantidad"
  /\ detalles # {}

\* C16: whenever addItem or setItemQuantity fails with ValidationError
\* because the quantity would exceed the stock, the cart rows and the cart
\* lines after the call are those before the call.
C16_RejectionLeavesState ==
  [][(/\ ret'.op \in {"add", "set"}
      /\ ret'.result = "ValidationError" /\ ret'.msg = "stock")
       => (carritos' = carritos /\ detalles' = detalles)
    ]_vars

\* C19 as stated: setItemQuantity(u,p,q), here for every positive integer
\* q, and removeItem(u,p) fail with NotFoundError and change neither carts
\* nor lines when the active cart of u has no line for p (or u has no
\* active cart).
C19_NeverCreates_Original ==
  [][/\ ret'.op = "set" =>
          \A u \in Users, p \in ProductInputs, q \in Cantidades :
            (/\ LineasDeProducto(DB, u, p) = {} /\ q >= 1
             /\ SetItemQuantity(u, p, q))
              => (/\ ret'.result = "NotFoundError"
                  /\ carritos' = carritos /\ detalles' = detalles)
     /\ ret'.op = "remove" =>
          \A u \in Users, p \in ProductInputs :
            (LineasDeProducto(DB, u, p) = {} /\ RemoveItem(u, p))
              => (/\ ret'.result = "NotFoundError"
                  /\ carritos' = carritos /\ detalles' = detalles)
    ]_vars

\* the error of setItemQuantity(u,p,q) on a cart without a line for p: the
\* quantity and the stock are checked before the line is looked up
ErrorSinLinea(p, q) ==
  IF q < 1 THEN "ValidationError"
  ELSE IF p \notin Products THEN "NotFoundError"
  ELSE IF q > productos[p].stock THEN "ValidationError"
  ELSE "NotFoundError"

\* C19 amended: when the active cart of u has no line for p (or u has no
\* active cart), setItemQuantity(u,p,q) fails and changes neither carts nor
\* lines; the error is NotFoundError when q is a positive integer that does
\* not exceed the stock of p or p is not in the catalog, and
\* ValidationError when q is not a positive integer or exceeds the stock.
\* removeItem(u,p) fails with NotFoundError and changes nothing.
C19_NeverCreates ==
  [][/\ ret'.op = "set" =>
          /\ \A u \in Users, p \in ProductInputs, q \in Cantidades :
               (LineasDeProducto(DB, u, p) = {} /\ SetItemQuantity(u, p, q))
                 => (/\ ret'.result = ErrorSinLinea(p, q)
                     /\ carritos' = carritos /\ detalles' = detalles)
          /\ \A u \in Users, p \in Products, x \in OtrasCantidades :
               (/\ LineasDeProducto(DB, u, p) = {}
                /\ SetItemQuantityNumero(u, p, x))
                 => (/\ ret'.result = "ValidationError"
                     /\ carritos' = carritos /\ detalles' = detalles)
     /\ ret'.op = "remove" =>
          \A u \in Users, p \in ProductInputs :
            (LineasDeProducto(DB, u, p) = {} /\ RemoveItem(u, p))
              => (/\ ret'.result = "NotFoundError"
                  /\ carritos' = carritos /\ detalles' = detalles)
    ]_vars

\* setItemQuantity did not find the line in a cart that holds another line
C19_Witness ==
  /\ ret.op = "set" /\ ret.result = "NotFoundError" /\ ret.msg = "detalle"
  /\ detalles # {}
  /\ \E c \in 1..Len(carritos) : carritos[c].estado = 1 /\ DetallesDe(DB, c) # {}

\* C20: setCartState(u,s) with s outside {1,2,3} fails with ValidationError
\* and changes nothing; with a valid s the active cart of u (created when
\* absent) ends with estado = s, the result reports the id of that cart and
\* s, and no other cart row and no line changes.
C20_SetCartState ==
  [][ret'.op = "estado" =>
       \A u \in Users, e \in EstadoInputs :
         SetCartState(u, e) =>
           IF e \notin {1, 2, 3}
             THEN /\ ret'.result = "ValidationError"
                  /\ carritos' = carritos /\ detalles' = detalles
             ELSE LET c == IF ActiveCarts(DB, u) # {}
                             THEN CHOOSE a \in ActiveCarts(DB, u) : TRUE
                             ELSE Len(carritos) + 1
                  IN /\ ret'.result = "ok"
                     /\ ret'.view.id = c /\ ret'.view.estado = e
                     /\ Len(carritos') = IF ActiveCarts(DB, u) # {}
                                           THEN Len(carritos)
                                           ELSE Len(carritos) + 1
                     /\ carritos'[c] = [usuario_id |-> u, estado |-> e]
                     /\ \A k \in 1..Len(carritos) :
                          k # c => carritos'[k] = carritos[k]
                     /\ detalles' = detalles
    ]_vars

\* the second cart of a user was abandoned while the first one stays
\* converted
C20_Witness ==
  /\ ret.op = "estado" /\ ret.result = "ok" /\ ret.view.id = 2
  /\ ret.view.estado = 3
  /\ Len(carritos) = 2
  /\ carritos[1] = [usuario_id |-> ret.view.usuario_id, estado |-> 2]
  /\ carritos[2] = [usuario_id |-> ret.view.usuario_id, estado |-> 3]

\* C17: when one database call of addItem, setItemQuantity, removeItem or
\* clear fails and the operation returns an error, the operation has
\* inserted, updated or deleted no cart line.
C17_AllOrNothing ==
  [][(ret'.op \in {"add", "set", "remove", "clear"} /\ ret'.result # "ok")
       => detalles' = detalles
    ]_vars

\* C18: whatever database call fails, by an error result or by an exception,
\* the error a caller of the cart service observes is a ValidationError, a
\* NotFoundError or a DatabaseError.
C18_ErrorTaxonomy ==
  ret.result \in {"none", "ok", "ValidationError", "NotFoundError",
                  "DatabaseError"}

\* C21: no call of the cart service, whether it returns or throws, changes
\* the stock or the price of any product.
C21_CatalogFrame ==
  [][ret'.op \in {"view", "add", "set", "remove", "clear", "estado"}
       => productos' = productos
    ]_vars

\* an addItem put the whole stock of a product into a cart and the stock
\* of the product is what it was
C21_Witness ==
  /\ ret.op = "add" /\ ret.result = "ok"
  /\ \E k \in 1..Len(ret.view.items) :
       /\ ret.view.items[k].producto_id = ret.p
       /\ ret.view.items[k].cantidad = 2
       /\ productos[ret.p].stock = 2

\* the lines of (carritoId, productoId) after
\* CarritoRepository.agregarProducto(carritoId, productoId, cantidad)
LineasTrasAgregar(c, p, q) ==
  {d \in Repo_agregarProducto(c, p, q, DB).db.detalles :
     d.carrito_id = c /\ d.producto_id = p}

\* C22 as stated: CarritoRepository.agregarProducto(c, p, q) leaves the line
\* of (c, p) with quantity q, whether the line existed or not.
C22_UpsertReplaces ==
  \A c \in 1..Len(carritos), p \in Products, q \in ConcCantidades :
    Repo_agregarProducto(c, p, q, DB).proc.pc # "blocked"
      => \A d \in LineasTrasAgregar(c, p, q) : d.cantidad = q

\* C22 amended: CarritoRepository.agregarProducto(c, p, q) leaves exactly
\* one line of (c, p); its quantity is the quantity of the existing line
\* plus q, and q when no line existed; no other line changes.
C22_UpsertIncrements ==
  \A c \in 1..Len(carritos), p \in Products, q \in ConcCantidades :
    LET antes == {d \in detalles : d.carrito_id = c /\ d.producto_id = p}
        r == Repo_agregarProducto(c, p, q, DB)
    IN r.proc.pc # "blocked"
         => /\ Cardinality(LineasTrasAgregar(c, p, q)) = 1
            /\ \A d \in LineasTrasAgregar(c, p, q) :
                 d.cantidad = q + (IF antes = {} THEN 0
                                   ELSE (CHOOSE e \in antes : TRUE).cantidad)
            /\ r.db.detalles \ LineasTrasAgregar(c, p, q) = detalles \ antes

\* the repository was called by an addItem on a cart that already held a
\* line of the product, next to a line of another product
C22_Witness ==
  /\ ret.op = "add" /\ ret.result = "ok" /\ ret.n = 1
  /\ Len(ret.view.items) = 2
  /\ CantidadEnCarrito(DB, ret.view.usuario_id, ret.p) = 2

RECURSIVE SumaCantidades(_)
\* the sum of cantidad over a set of lines
SumaCantidades(lineas) ==
  IF lineas = {} THEN 0
  ELSE LET d == CHOOSE x \in lineas : TRUE
       IN d.cantidad + SumaCantidades(lineas \ {d})

LineasEscritas == (detalles' \ detalles) \cup (detalles \ detalles')

\* C24: no line is inserted into, updated in or deleted from a cart whose
\* estado at the moment of the write is 2 or 3, also when the writing call
\* overlaps a setCartState call on the same cart.
C24_OnlyActiveMutated ==
  [][\A d \in LineasEscritas : carritos[d.carrito_id].estado = 1]_vars

\* C25: the select of getOrCreateCarrito(u) leads to the insert of a cart
\* row only when u has no cart with estado = 1; when u has one or more
\* active carts the call goes on with one of them and inserts nothing.
C25_CreatesOnlyWithoutActive ==
  [][\A i \in Procs :
       (procs[i].pc = "goc_select" /\ procs'[i].pc # "goc_select")
         => IF ActiveCarts(DB, procs[i].u) = {}
              THEN procs'[i].pc = "goc_create"
              ELSE /\ procs'[i].pc # "goc_create"
                   /\ procs'[i].carrito \in ActiveCarts(DB, procs[i].u)
                   /\ carritos' = carritos
    ]_vars

EnteroPositivo(c) == c.num % c.den = 0 /\ c.num > 0

\* C27: a request of POST /api/carrito/items whose cantidad is present but
\* is not a positive integer (0 included) is rejected with ValidationError
\* before the service is called.
C27_HttpCantidad ==
  [][(calls' = calls + 1 /\ ret'.body.presente /\ ~EnteroPositivo(ret'.body))
       => /\ ret'.op = "http_add"
          /\ ret'.result = "ValidationError"
          /\ UNCHANGED <<carritos, detalles, detalleSeq>>
    ]_vars

\* the lines of the carts that are not active
LineasCerradas == {d \in detalles : carritos[d.carrito_id].estado # 1}

\* C28: when setCartState(u, 2) or setCartState(u, 3) succeeded on cart c
\* and viewCart(u) is the next call, it returns a cart with another id,
\* estado 1 and no items; the lines of a cart that is no longer active stay
\* as they are, in their cart, and no later call returns one of them.
C28_ClosedCartKept ==
  [][/\ ( /\ ret.op = "estado" /\ ret.result = "ok"
          /\ ret.view.estado \in {2, 3}
          /\ calls' = calls + 1
          /\ ret'.op = "view" /\ ret'.view.usuario_id = ret.view.usuario_id )
        => /\ ret'.result = "ok"
           /\ ret'.view.id # ret.view.id
           /\ ret'.view.estado = 1
           /\ ret'.view.items = <<>>
           /\ detalles' = detalles
     /\ \A d \in LineasCerradas :
          /\ d \in detalles'
          /\ carritos'[d.carrito_id] = carritos[d.carrito_id]
          /\ \A k \in 1..Len(ret'.view.items) : ret'.view.items[k].id # d.id
    ]_vars

\* a cart with a line was converted and the view that followed returned the
\* second, empty cart of the user
C28_Witness ==
  /\ ret.op = "view" /\ ret.result = "ok" /\ ret.view.id = 2
  /\ ret.view.items = <<>>
  /\ Len(carritos) = 2
  /\ carritos[1] = [usuario_id |-> ret.view.usuario_id, estado |-> 2]
  /\ \E d \in detalles : d.carrito_id = 1

\* C30: when the line that setItemQuantity located has been deleted by an
\* overlapping removeItem or clear before the update, the update matches no
\* row, setItemQuantity fails with NotFoundError and the line is not
\* created again.
C30_UpdateOfDeletedLine ==
  [][\A i \in Procs :
       ( /\ procs[i].pc = "set_update" /\ procs'[i].pc # "set_update"
         /\ \A d \in detalles : d.id # procs[i].detalle )
         => /\ procs'[i].pc = "done"
            /\ procs'[i].result = "NotFoundError"
            /\ detalles' = detalles
    ]_vars

\* a setItemQuantity that ended with NotFoundError at its update while a
\* removeItem or a clear overlapped it
C30_Witness ==
  \E i \in Procs, j \in Procs :
    /\ i # j
    /\ procs[i].op = "set" /\ procs[i].pc = "done"
    /\ procs[i].result = "NotFoundError" /\ procs[i].msg = "detalle"
    /\ procs[i].detalle # 0
    /\ procs[j].op \in {"remove", "clear"}
    /\ procs[j].id \in procs[i].overlap
    /\ \A d \in detalles : d.id # procs[i].detalle

\* the user a cart row belongs to
DuenoDe(cs, c) == cs[c].usuario_id

\* C29: a step of a call made for user u, interleaved in any way with the
\* calls of other users, leaves every cart row and every cart line of every
\* other user as it was, and what it inserts belongs to u.
C29_UserIsolation ==
  [][\A i \in Procs :
       (calls' = calls /\ InFlight(procs[i]) /\ procs'[i] # procs[i])
         => LET u == procs[i].u
            IN /\ Len(carritos') >= Len(carritos)
               /\ \A c \in 1..Len(carritos) :
                    DuenoDe(carritos, c) # u => carritos'[c] = carritos[c]
               /\ \A c \in (Len(carritos) + 1)..Len(carritos') :
                    DuenoDe(carritos', c) = u
               /\ \A d \in detalles :
                    DuenoDe(carritos, d.carrito_id) # u => d \in detalles'
               /\ \A d \in detalles' \ detalles :
                    DuenoDe(carritos', d.carrito_id) = u
    ]_vars

\* a call of one user has deleted a line of its cart while the cart of
\* the other user holds a line
C29_Witness ==
  \E i \in Procs :
    /\ procs[i].op \in {"remove", "clear"} /\ procs[i].pc = "done"
    /\ procs[i].result = "ok"
    /\ procs[i].overlap # {}
    /\ \E d \in detalles : DuenoDe(carritos, d.carrito_id) # procs[i].u
    /\ detalleSeq = 3
====
